---- MODULE Spec2Model ----
(***************************************************************************)
(* establishCursors (mongo/s/query/establish_cursors.cpp): scatter-gather  *)
(* establishment of cursors on a list of shards, with the drain-and-kill   *)
(* path taken when one of the remotes fails.                               *)
(*                                                                         *)
(* The AsyncRequestsSender and the TaskExecutor are collaborators whose    *)
(* code is outside the modelled file.  They are modelled by their          *)
(* interface: the sender delivers one completion per request, in an order  *)
(* of its own choosing, and next() may itself raise; the executor accepts  *)
(* or rejects a scheduled command.                                         *)
(*                                                                         *)
(* The same targets and the same completion sequence are handed to         *)
(* establishCursors twice, first with allowPartialResults false and then   *)
(* with it true, so that the two calls can be compared.                    *)
(***************************************************************************)
EXTENDS Integers, Sequences, FiniteSets

\* Largest number of shards targeted by one call.
NumShards == 3

Shards == 1..NumShards

\* ---------------------------------------------------------------------
\* Values
\* ---------------------------------------------------------------------

\* The namespace the caller passes (parameter nss).
nss == "db.coll"

\* A namespace a shard may report in its cursor response instead of nss.
OtherNss == "db.other"

DbOf(ns) == "db"

\* RemoteCommandRetryScheduler::kAllRetriableErrors, and one error code
\* outside it.
kAllRetriableErrors == {"HostUnreachable"}

ErrorCodes == kAllRetriableErrors \cup {"NamespaceNotFound"}

\* The host a shard's response comes from and the cursor id it opens.
HostOf(s) == <<"host", s>>

CursorIdOf(s) == 100 + s

NoHost == <<"host", 0>>

\* The command payload the caller pairs with a shard (remote.second).
CmdOf(s) == <<"cmd", s>>

\* "No exception".
NoError == [code |-> "OK", shardId |-> 0]

\* ---------------------------------------------------------------------
\* What the sender can deliver for one request.
\*   kind = "ok"        swResponse is OK and parses as a cursor response
\*   kind = "parse"     swResponse is OK, CursorResponse::parseFromBSON fails
\*   kind = "transport" swResponse is an error status
\*   kind = "throw"     ars.next() raises a DBException
\* shardHostAndPort is present only if a host was actually reached.
\* ---------------------------------------------------------------------
OkResponse(s, ns) ==
    [shardId |-> s, kind |-> "ok", code |-> "OK", hasHost |-> TRUE,
     host |-> HostOf(s), cursorId |-> CursorIdOf(s), nss |-> ns]

FailedResponse(s, k, c) ==
    [shardId |-> s, kind |-> k, code |-> c, hasHost |-> (k = "parse"),
     host |-> IF k = "parse" THEN HostOf(s) ELSE NoHost,
     cursorId |-> 0, nss |-> nss]

\* The shapes a completion can take, whichever shard it is for:
\* <<kind, code, namespace reported>>.
Shapes ==
    ({"ok"} \X {"OK"} \X {nss, OtherNss})
        \cup ({"parse", "transport", "throw"} \X ErrorCodes \X {nss})

Response(s, sh) ==
    IF sh[1] = "ok" THEN OkResponse(s, sh[3])
                    ELSE FailedResponse(s, sh[1], sh[2])

Outcomes(s) == {Response(s, sh) : sh \in Shapes}

\* The target lists: shards 1..n paired with their commands.
RemotesOf(n) == [i \in 1..n |-> <<i, CmdOf(i)>>]

ArrivalOrders(n) ==
    {p \in [1..n -> 1..n] : \A i, j \in 1..n : p[i] = p[j] => i = j}

VARIABLES
    remotes,              \* parameter: the (shardId, cmdObj) pairs
    allowPartialResults,  \* parameter
    completions,          \* the sender's completions, in arrival order
    requests,             \* the requests handed to the sender
    consumed,             \* number of completions next() has delivered
    stopped,              \* stopRetrying() has been called
    remoteCursors,        \* the cursors established so far
    pc,                   \* position in establishCursors
    caught,               \* the exception being handled by the outer catch
    innerCaught,          \* the exception swallowed by the inner catch
    killIdx,              \* position of the killCursors loop
    scheduled,            \* commands handed to executor->scheduleRemoteCommand
    returned,             \* the vector returned to the caller
    raised,               \* the exception that leaves establishCursors
    call,                 \* 1 or 2: which of the two calls is running
    prev,                 \* outcome of the first call
    hostRead,             \* shards whose shardHostAndPort was dereferenced
    callbacksRun          \* number of killCursors callbacks that have run

vars == <<remotes, allowPartialResults, completions, requests, consumed,
          stopped, remoteCursors, pc, caught, innerCaught, killIdx,
          scheduled, returned, raised, call, prev, hostRead, callbacksRun>>

NoPrev ==
    [pc |-> "none", allowPartialResults |-> FALSE, returned |-> <<>>,
     raised |-> NoError, closes |-> {}]

Init ==
    /\ \E n \in 0..NumShards :
         /\ remotes = RemotesOf(n)
         /\ \E order \in ArrivalOrders(n) :
              \E shape \in [1..n -> Shapes] :
                completions = [i \in 1..n |-> Response(order[i], shape[i])]
    /\ allowPartialResults = FALSE
    /\ requests = <<>>
    /\ consumed = 0
    /\ stopped = FALSE
    /\ remoteCursors = <<>>
    /\ pc = "start"
    /\ caught = NoError
    /\ innerCaught = NoError
    /\ killIdx = 0
    /\ scheduled = <<>>
    /\ returned = <<>>
    /\ raised = NoError
    /\ call = 1
    /\ prev = NoPrev
    /\ hostRead = {}
    /\ callbacksRun = 0

\* ---------------------------------------------------------------------
\* Helpers of the function body
\* ---------------------------------------------------------------------

\* A builder that fills the vector back to front.
BuildRequestsReversed(rs) ==
    [i \in 1..Len(rs) |->
        [shardId |-> rs[Len(rs) + 1 - i][1], cmdObj |-> rs[Len(rs) + 1 - i][2]]]

\* requests.emplace_back(remote.first, remote.second) for each remote.
BuildRequests(rs) ==
    [i \in 1..Len(rs) |-> [shardId |-> rs[i][1], cmdObj |-> rs[i][2]]]

\* ars.done(): every request's completion has been delivered.
ArsDone == consumed = Len(requests)

\* ars.next(): the next completion in arrival order.
ArsNext == completions[consumed + 1]

\* A membership test with the comparison against end() inverted.
IsRetriableNegated(code) == code \notin kAllRetriableErrors

\* std::find(kAllRetriableErrors.begin(), kAllRetriableErrors.end(), code)
IsRetriable(code) == code \in kAllRetriableErrors

\* A loop body that forgets the uassertStatusOK around parseFromBSON.
ThrownTransportOnly(e) ==
    IF e.kind \in {"throw", "transport"}
      THEN [code |-> e.code, shardId |-> e.shardId]
      ELSE NoError

\* A loop body that reports every parse failure under one generic code.
ThrownParseGeneric(e) ==
    IF e.kind \in {"throw", "transport"}
      THEN [code |-> e.code, shardId |-> e.shardId]
      ELSE IF e.kind = "parse"
             THEN [code |-> "FailedToParse", shardId |-> e.shardId]
             ELSE NoError

\* The exception the body of the collecting loop raises for a completion:
\* next() raising, uassertStatusOK(swResponse), or
\* uassertStatusOK(parseFromBSON(...)); NoError if none does.
Thrown(e) ==
    IF e.kind = "throw" THEN [code |-> e.code, shardId |-> e.shardId]
    ELSE IF e.kind = "transport" THEN [code |-> e.code, shardId |-> e.shardId]
    ELSE IF e.kind = "parse" THEN [code |-> e.code, shardId |-> e.shardId]
    ELSE NoError

\* A catch that forgets to test allowPartialResults.
SwallowedRetriable(allowPartial, ex) == IsRetriable(ex.code)

\* A catch that forgets to test the error code.
SwallowedAny(allowPartial, ex) == allowPartial

\* The test of the inner catch: the error is swallowed.
Swallowed(allowPartial, ex) == allowPartial /\ IsRetriable(ex.code)

\* A draining loop that tests response.swResponse.isOK() only and takes
\* an unparsable response for a cursor.
DrainCursorOKUnparsed(e) == e.kind \in {"ok", "parse"}

\* swCursorResponse.isOK() in the draining loop.
DrainCursorOK(e) ==
    IF e.kind \in {"ok", "parse"} THEN e.kind = "ok" ELSE FALSE

\* A loop body that reads *response.shardHostAndPort before the uasserts.
CollectDerefsHostFirst(e) == e.kind # "throw"

\* The collecting loop evaluates *response.shardHostAndPort for a
\* completion: only if control reaches the emplace_back, past both uasserts.
CollectDerefsHost(e) == Thrown(e) = NoError

\* The draining loop evaluates *response.shardHostAndPort for a
\* completion: only inside the if (swCursorResponse.isOK()).
DrainDerefsHost(e) == DrainCursorOK(e)

\* An emplace_back that reads the optional host after moving out of it.
RemoteCursorStaleHost(e) ==
    [shardId |-> e.shardId, hostAndPort |-> NoHost,
     cursorResponse |-> [cursorId |-> e.cursorId, nss |-> e.nss]]

\* An emplace_back that reads the shardId after it has been moved from.
RemoteCursorMovedFrom(e) ==
    [shardId |-> 0, hostAndPort |-> e.host,
     cursorResponse |-> [cursorId |-> e.cursorId, nss |-> e.nss]]

\* remoteCursors.emplace_back(shardId, *shardHostAndPort, cursorResponse)
RemoteCursor(e) ==
    [shardId |-> e.shardId, hostAndPort |-> e.host,
     cursorResponse |-> [cursorId |-> e.cursorId, nss |-> e.nss]]

\* The killCursors command scheduled for one established cursor.
KillRequest(rc, accepted) ==
    [target |-> rc.hostAndPort, dbname |-> DbOf(nss),
     cmdObj |-> [nss |-> nss, cursorIds |-> <<rc.cursorResponse.cursorId>>],
     accepted |-> accepted]

\* The number of scheduled commands the executor accepted.
Accepted(sched) == Cardinality({k \in DOMAIN sched : sched[k].accepted})

\* The hosts that were sent a killCursors, with the command sent.
Closes(sched) ==
    {<<sched[k].target, sched[k].cmdObj>> : k \in DOMAIN sched}

\* A rethrow that lets the exception of the inner handler escape.
RethrowLatest(outer, inner) == IF inner # NoError THEN inner ELSE outer

\* "throw;" at the end of the outer catch: the exception being handled by
\* the outer handler, whatever the inner handler caught.
Rethrow(outer, inner) == outer

\* ---------------------------------------------------------------------
\* Actions
\* ---------------------------------------------------------------------

\* Construct the requests and hand them to the sender.
SendRequests ==
    /\ pc = "start"
    /\ requests' = BuildRequests(remotes)
    /\ pc' = "collecting"
    /\ UNCHANGED <<remotes, allowPartialResults, completions, consumed,
                   stopped, remoteCursors, caught, innerCaught, killIdx,
                   scheduled, returned, raised, call, prev, hostRead,
                   callbacksRun>>

\* A first loop whose catch, instead of skipping a swallowed failure,
\* goes round again for the same request.
CollectNextRetry ==
    /\ pc = "collecting"
    /\ ~ArsDone
    /\ LET e  == ArsNext
           ex == Thrown(e)
       IN  /\ consumed' = IF ex # NoError /\ Swallowed(allowPartialResults, ex)
                             THEN consumed
                             ELSE consumed + 1
           /\ hostRead' = IF CollectDerefsHost(e)
                             THEN hostRead \cup {e.shardId}
                             ELSE hostRead
           /\ IF ex = NoError
                THEN /\ remoteCursors' = Append(remoteCursors, RemoteCursor(e))
                     /\ UNCHANGED <<pc, caught>>
                ELSE IF Swallowed(allowPartialResults, ex)
                       THEN UNCHANGED <<remoteCursors, pc, caught>>
                       ELSE /\ caught' = ex
                            /\ pc' = "caught"
                            /\ UNCHANGED remoteCursors
    /\ UNCHANGED <<remotes, allowPartialResults, completions, requests,
                   stopped, innerCaught, killIdx, scheduled, returned,
                   raised, call, prev, callbacksRun>>

\* One iteration of the first while loop.
CollectNext ==
    /\ pc = "collecting"
    /\ ~ArsDone
    /\ LET e  == ArsNext
           ex == Thrown(e)
       IN  /\ consumed' = consumed + 1
           /\ hostRead' = IF CollectDerefsHost(e)
                             THEN hostRead \cup {e.shardId}
                             ELSE hostRead
           /\ IF ex = NoError
                THEN /\ remoteCursors' = Append(remoteCursors, RemoteCursor(e))
                     /\ UNCHANGED <<pc, caught>>
                ELSE IF Swallowed(allowPartialResults, ex)
                       THEN UNCHANGED <<remoteCursors, pc, caught>>
                       ELSE /\ caught' = ex
                            /\ pc' = "caught"
                            /\ UNCHANGED remoteCursors
    /\ UNCHANGED <<remotes, allowPartialResults, completions, requests,
                   stopped, innerCaught, killIdx, scheduled, returned,
                   raised, call, prev, callbacksRun>>

\* The cursors of a list put in the order of the targets.
InTargetOrder(cs) ==
    LET has(r) == \E j \in DOMAIN cs : cs[j].shardId = r[1]
        present == SelectSeq(remotes, has)
    IN  [i \in 1..Len(present) |->
            cs[CHOOSE j \in DOMAIN cs : cs[j].shardId = present[i][1]]]

\* A return that hands the cursors back in the order of the targets.
ReturnCursorsInTargetOrder ==
    /\ pc = "collecting"
    /\ ArsDone
    /\ returned' = InTargetOrder(remoteCursors)
    /\ pc' = "done"
    /\ UNCHANGED <<remotes, allowPartialResults, completions, requests,
                   consumed, stopped, remoteCursors, caught, innerCaught,
                   killIdx, scheduled, raised, call, prev, hostRead,
                   callbacksRun>>

\* A return that uasserts that at least one cursor was established.
ReturnCursorsNonEmpty ==
    /\ pc = "collecting"
    /\ ArsDone
    /\ IF remoteCursors = <<>>
         THEN /\ pc' = "caught"
              /\ caught' = [code |-> "NamespaceNotFound", shardId |-> 0]
              /\ UNCHANGED returned
         ELSE /\ pc' = "done"
              /\ returned' = remoteCursors
              /\ UNCHANGED caught
    /\ UNCHANGED <<remotes, allowPartialResults, completions, requests,
                   consumed, stopped, remoteCursors, innerCaught,
                   killIdx, scheduled, raised, call, prev, hostRead,
                   callbacksRun>>

\* The first loop ends: return remoteCursors.
ReturnCursors ==
    /\ pc = "collecting"
    /\ ArsDone
    /\ returned' = remoteCursors
    /\ pc' = "done"
    /\ UNCHANGED <<remotes, allowPartialResults, completions, requests,
                   consumed, stopped, remoteCursors, caught, innerCaught,
                   killIdx, scheduled, raised, call, prev, hostRead,
                   callbacksRun>>

\* An outer catch that goes on to drain without calling stopRetrying().
StopRetryingForgotten ==
    /\ pc = "caught"
    /\ pc' = "draining"
    /\ UNCHANGED <<remotes, allowPartialResults, completions, requests,
                   consumed, stopped, remoteCursors, caught, innerCaught,
                   killIdx, scheduled, returned, raised, call, prev, hostRead,
                   callbacksRun>>

\* Outer catch: ars.stopRetrying().
StopRetrying ==
    /\ pc = "caught"
    /\ stopped' = TRUE
    /\ pc' = "draining"
    /\ UNCHANGED <<remotes, allowPartialResults, completions, requests,
                   consumed, remoteCursors, caught, innerCaught, killIdx,
                   scheduled, returned, raised, call, prev, hostRead,
                   callbacksRun>>

\* One iteration of the draining loop.  If next() raises, the inner catch
\* swallows the exception and control passes to the final "throw;".
DrainNext ==
    /\ pc = "draining"
    /\ ~ArsDone
    /\ LET e == ArsNext
       IN  /\ consumed' = consumed + 1
           /\ IF e.kind = "throw"
                THEN /\ innerCaught' = [code |-> e.code, shardId |-> e.shardId]
                     /\ raised' = Rethrow(caught, innerCaught')
                     /\ pc' = "failed"
                     /\ UNCHANGED <<remoteCursors, hostRead>>
                ELSE /\ remoteCursors' =
                          IF DrainCursorOK(e)
                            THEN Append(remoteCursors, RemoteCursor(e))
                            ELSE remoteCursors
                     /\ hostRead' = IF DrainDerefsHost(e)
                                       THEN hostRead \cup {e.shardId}
                                       ELSE hostRead
                     /\ UNCHANGED <<innerCaught, raised, pc>>
    /\ UNCHANGED <<remotes, allowPartialResults, completions, requests,
                   stopped, caught, killIdx, scheduled, returned, call, prev,
                   callbacksRun>>

\* The draining loop ends: start the killCursors loop.
DrainDone ==
    /\ pc = "draining"
    /\ ArsDone
    /\ killIdx' = 1
    /\ pc' = "cleanup"
    /\ UNCHANGED <<remotes, allowPartialResults, completions, requests,
                   consumed, stopped, remoteCursors, caught, innerCaught,
                   scheduled, returned, raised, call, prev, hostRead,
                   callbacksRun>>

\* A killCursors loop that moves each cursor out of the vector as it
\* schedules its killCursors.
ScheduleKillConsuming ==
    /\ pc = "cleanup"
    /\ remoteCursors # <<>>
    /\ killIdx <= Len(remoteCursors)
    /\ \E accepted \in BOOLEAN :
         scheduled' = Append(scheduled,
                             KillRequest(Head(remoteCursors), accepted))
    /\ remoteCursors' = Tail(remoteCursors)
    /\ UNCHANGED <<remotes, allowPartialResults, completions, requests,
                   consumed, stopped, killIdx, pc, caught, innerCaught,
                   returned, raised, call, prev, hostRead,
                   callbacksRun>>

\* A killCursors loop that uasserts the status of scheduleRemoteCommand:
\* a rejected command raises into the inner catch and ends the loop.
ScheduleKillAsserting ==
    /\ pc = "cleanup"
    /\ killIdx <= Len(remoteCursors)
    /\ \E accepted \in BOOLEAN :
         /\ scheduled' = Append(scheduled,
                                KillRequest(remoteCursors[killIdx], accepted))
         /\ IF accepted
              THEN /\ killIdx' = killIdx + 1
                   /\ UNCHANGED <<pc, raised>>
              ELSE /\ pc' = "failed"
                   /\ raised' = caught
                   /\ UNCHANGED killIdx
    /\ UNCHANGED <<remotes, allowPartialResults, completions, requests,
                   consumed, stopped, remoteCursors, caught, innerCaught,
                   returned, call, prev, hostRead, callbacksRun>>

\* One iteration of the killCursors loop.  The executor may accept or
\* reject the command; the returned status is ignored.
ScheduleKill ==
    /\ pc = "cleanup"
    /\ killIdx <= Len(remoteCursors)
    /\ \E accepted \in BOOLEAN :
         scheduled' = Append(scheduled,
                             KillRequest(remoteCursors[killIdx], accepted))
    /\ killIdx' = killIdx + 1
    /\ UNCHANGED <<remotes, allowPartialResults, completions, requests,
                   consumed, stopped, remoteCursors, pc, caught, innerCaught,
                   returned, raised, call, prev, hostRead,
                   callbacksRun>>

\* An end of the killCursors loop that waits for the callbacks of the
\* accepted commands before it rethrows.
RethrowOriginalWaits ==
    /\ pc = "cleanup"
    /\ killIdx > Len(remoteCursors)
    /\ callbacksRun = Accepted(scheduled)
    /\ raised' = Rethrow(caught, innerCaught)
    /\ pc' = "failed"
    /\ UNCHANGED <<remotes, allowPartialResults, completions, requests,
                   consumed, stopped, remoteCursors, caught, innerCaught,
                   killIdx, scheduled, returned, call, prev, hostRead,
                   callbacksRun>>

\* The killCursors loop ends: "throw;".
RethrowOriginal ==
    /\ pc = "cleanup"
    /\ killIdx > Len(remoteCursors)
    /\ raised' = Rethrow(caught, innerCaught)
    /\ pc' = "failed"
    /\ UNCHANGED <<remotes, allowPartialResults, completions, requests,
                   consumed, stopped, remoteCursors, caught, innerCaught,
                   killIdx, scheduled, returned, call, prev, hostRead,
                   callbacksRun>>

\* The first call has ended; the caller calls again with the other value
\* of allowPartialResults, and the sender delivers the same completions.
CallAgain ==
    /\ call = 1
    /\ pc \in {"done", "failed"}
    /\ prev' = [pc |-> pc, allowPartialResults |-> allowPartialResults,
                returned |-> returned, raised |-> raised,
                closes |-> Closes(scheduled)]
    /\ call' = 2
    /\ allowPartialResults' = ~allowPartialResults
    /\ requests' = <<>>
    /\ consumed' = 0
    /\ stopped' = FALSE
    /\ remoteCursors' = <<>>
    /\ pc' = "start"
    /\ caught' = NoError
    /\ innerCaught' = NoError
    /\ killIdx' = 0
    /\ scheduled' = <<>>
    /\ returned' = <<>>
    /\ raised' = NoError
    /\ hostRead' = {}
    /\ callbacksRun' = 0
    /\ UNCHANGED <<remotes, completions>>

\* The executor completes a killCursors it had accepted and runs the
\* callback given to scheduleRemoteCommand, whose body is empty.
KillCallback ==
    /\ callbacksRun < Accepted(scheduled)
    /\ callbacksRun' = callbacksRun + 1
    /\ UNCHANGED <<remotes, allowPartialResults, completions, requests,
                   consumed, stopped, remoteCursors, pc, caught, innerCaught,
                   killIdx, scheduled, returned, raised, call, prev,
                   hostRead>>

\* The steps of the thread that runs establishCursors.
Coordinator ==
    \/ SendRequests
    \/ CollectNext
    \/ ReturnCursors
    \/ StopRetrying
    \/ DrainNext
    \/ DrainDone
    \/ ScheduleKill
    \/ RethrowOriginal
    \/ CallAgain

Next ==
    \/ Coordinator
    \/ KillCallback

Spec == Init /\ [][Next]_vars

\* The calling thread keeps running, and the sender delivers a completion
\* for every request; nothing is assumed about the executor ever
\* completing a killCursors.
FairSpec == Spec /\ WF_vars(Coordinator)

\* ---------------------------------------------------------------------
\* Vocabulary of the properties
\* ---------------------------------------------------------------------

Targets == {remotes[i][1] : i \in DOMAIN remotes}

Terminal == pc \in {"done", "failed"}

OnFatalPath == pc \in {"caught", "draining", "cleanup", "failed"}

\* Indices of the completions that are failures, of any kind.
FailedIdx == {i \in DOMAIN completions : completions[i].kind # "ok"}

OkIdx == DOMAIN completions \ FailedIdx

\* The error a failed completion stands for.
ErrOf(e) == [code |-> e.code, shardId |-> e.shardId]

\* The cursor a successful completion stands for.
CursorOf(e) ==
    [shardId |-> e.shardId, hostAndPort |-> HostOf(e.shardId),
     cursorResponse |-> [cursorId |-> e.cursorId, nss |-> e.nss]]

\* Indices of the failures that are fatal under a value of the flag.
FatalIdx(allowPartial) ==
    {i \in FailedIdx :
        ~(allowPartial /\ completions[i].code \in kAllRetriableErrors)}

Min(S) == CHOOSE i \in S : \A j \in S : i <= j

FirstFatal(allowPartial) == completions[Min(FatalIdx(allowPartial))]

ClosesTo(h) == {k \in DOMAIN scheduled : scheduled[k].target = h}

CursorSet(cs) == {cs[i] : i \in DOMAIN cs}

NoDuplicates(cs) ==
    \A i, j \in DOMAIN cs : cs[i].shardId = cs[j].shardId => i = j

\* ---------------------------------------------------------------------
\* Properties
\* ---------------------------------------------------------------------

\* C1: when every completion is a successfully parsed cursor response,
\* the call never enters the failure path, and what it returns is exactly
\* one cursor per target, each with the host and the cursor data of that
\* shard's own response.
C1_AllSucceed ==
    FailedIdx = {} =>
        /\ ~OnFatalPath
        /\ pc = "done" =>
             /\ Len(returned) = Len(remotes)
             /\ NoDuplicates(returned)
             /\ CursorSet(returned) =
                  {CursorOf(completions[i]) : i \in DOMAIN completions}
             /\ {c.shardId : c \in CursorSet(returned)} = Targets

\* C1 witness: three targets all succeeded, arriving in an order that is
\* not the order of the targets.
C1_Witness ==
    /\ pc = "done"
    /\ FailedIdx = {}
    /\ Len(remotes) >= 3
    /\ completions[1].shardId # remotes[1][1]
    /\ Len(returned) = Len(remotes)

\* C2: with allowPartialResults false, a failed completion of any kind
\* makes the call raise and return nothing; if exactly one completion
\* failed, the error raised is that one's.
C2_AnyFailureRaises ==
    (~allowPartialResults /\ FailedIdx # {}) =>
        /\ pc # "done"
        /\ returned = <<>>
        /\ pc = "failed" =>
             /\ raised # NoError
             /\ \A i \in FailedIdx :
                  FailedIdx = {i} => raised = ErrOf(completions[i])

\* C2 witness: the call has raised the retriable error of the one
\* target that failed, after another target's cursor was established.
C2_Witness ==
    /\ pc = "failed"
    /\ ~allowPartialResults
    /\ Cardinality(FailedIdx) = 1
    /\ \E i \in FailedIdx :
         /\ completions[i].code \in kAllRetriableErrors
         /\ i > 1
         /\ raised = ErrOf(completions[i])

\* C3: with allowPartialResults true, if every failed completion has a
\* retriable code the call never enters the failure path, and it returns
\* exactly the cursors of the completions that succeeded.
C3_PartialResults ==
    (allowPartialResults /\ FatalIdx(TRUE) = {}) =>
        /\ ~OnFatalPath
        /\ pc = "done" =>
             /\ Len(returned) = Cardinality(OkIdx)
             /\ NoDuplicates(returned)
             /\ CursorSet(returned) = {CursorOf(completions[i]) : i \in OkIdx}

\* C3 witness: one of three targets failed with a retriable code, between
\* two successes, and two cursors were returned.
C3_Witness ==
    /\ pc = "done"
    /\ allowPartialResults
    /\ Len(remotes) = 3
    /\ FailedIdx = {2}
    /\ Len(returned) = 2

\* C4: when the call has raised, every cursor established before the
\* fatal failure was observed has been sent exactly one killCursors.
C4_ExactlyOneClose ==
    pc = "failed" =>
        \A i \in OkIdx :
            i < Min(FatalIdx(allowPartialResults)) =>
                Cardinality(ClosesTo(HostOf(completions[i].shardId))) = 1

\* C5: the error handled on the failure path, and the error raised, is
\* the first fatal failure in arrival order, whatever is consumed later.
C5_FirstFatalRaised ==
    OnFatalPath =>
        /\ FatalIdx(allowPartialResults) # {}
        /\ caught = ErrOf(FirstFatal(allowPartialResults))
        /\ pc = "failed" => raised = ErrOf(FirstFatal(allowPartialResults))

\* C5 witness: the call raised the first fatal failure after a second
\* fatal failure, of another code, was consumed while draining.
C5_Witness ==
    /\ pc = "failed"
    /\ Cardinality(FatalIdx(allowPartialResults)) >= 2
    /\ \E j \in FatalIdx(allowPartialResults) :
         /\ j <= consumed
         /\ completions[j].code # raised.code
         /\ completions[j].shardId # raised.shardId
    /\ raised = ErrOf(FirstFatal(allowPartialResults))

\* C6: when the call has raised, every accumulated cursor has been sent
\* at least one killCursors, also when draining itself raised.
C6_EveryCursorGetsClose ==
    pc = "failed" =>
        \A i \in DOMAIN remoteCursors :
            ClosesTo(remoteCursors[i].hostAndPort) # {}

\* C7: if the executor rejected every killCursors, or draining raised,
\* the error that leaves the call is still the one first captured.
C7_OriginalErrorSurvives ==
    (/\ pc = "failed"
     /\ \/ innerCaught # NoError
        \/ /\ scheduled # <<>>
           /\ \A k \in DOMAIN scheduled : ~scheduled[k].accepted) =>
        /\ raised = caught
        /\ raised = ErrOf(FirstFatal(allowPartialResults))

\* C7 witness: two cursors were accumulated, the executor rejected both
\* killCursors, and the call raised the captured error.
C7_Witness ==
    /\ pc = "failed"
    /\ Len(remoteCursors) >= 2
    /\ Len(scheduled) = Len(remoteCursors)
    /\ \A k \in DOMAIN scheduled : ~scheduled[k].accepted
    /\ raised = caught

\* Both calls have ended; one was made with each value of the flag.
BothCallsEnded == call = 2 /\ Terminal

SameAsFirstCall ==
    /\ pc = "failed"
    /\ prev.pc = "failed"
    /\ raised = prev.raised
    /\ Closes(scheduled) = prev.closes

\* C8 as stated: whenever some completion fails with a code that is not
\* retriable, the call with allowPartialResults true raises the same
\* error and sends the same killCursors as the call with it false.
C8_SameAsNoPartial ==
    (BothCallsEnded /\ FatalIdx(TRUE) # {}) => SameAsFirstCall

\* C8 amended: the two calls agree when the first failed completion in
\* arrival order is one whose code is not retriable.
C8_SameWhenFirstFailureFatal ==
    (/\ BothCallsEnded
     /\ FatalIdx(TRUE) # {}
     /\ Min(FailedIdx) \in FatalIdx(TRUE)) => SameAsFirstCall

\* C8 witness: both calls raised the non-retriable error that arrived
\* after an established cursor, and both sent that cursor a killCursors.
C8_Witness ==
    /\ BothCallsEnded
    /\ Len(completions) >= 2
    /\ completions[1].kind = "ok"
    /\ completions[2].kind = "transport"
    /\ completions[2].code \notin kAllRetriableErrors
    /\ SameAsFirstCall
    /\ scheduled # <<>>

\* The collecting loop consumes a completion that is a failed response.
CollectsFailedResponse ==
    /\ pc = "collecting"
    /\ consumed' = consumed + 1
    /\ call' = call
    /\ ArsNext.kind \in {"parse", "transport"}

\* C9: in the collecting loop a transport failure and a parse failure
\* are treated by the same test: discarded, and the loop continues,
\* exactly if allowPartialResults is true and the code is retriable;
\* fatal, with that code, otherwise.
C9_SameClassification ==
    [][CollectsFailedResponse =>
          /\ remoteCursors' = remoteCursors
          /\ IF allowPartialResults /\ ArsNext.code \in kAllRetriableErrors
               THEN pc' = "collecting" /\ caught' = NoError
               ELSE pc' = "caught" /\ caught' = ErrOf(ArsNext)]_vars

\* C9 witness: with allowPartialResults true the loop has discarded a
\* parse failure with a retriable code and is still collecting.
C9_Witness ==
    /\ pc = "collecting"
    /\ allowPartialResults
    /\ consumed >= 1
    /\ completions[consumed].kind = "parse"
    /\ completions[consumed].code \in kAllRetriableErrors
    /\ remoteCursors = <<>>

\* C10: the shardIds of a returned list are target shardIds, and none
\* appears twice.
C10_ReturnedSubsetUnique ==
    pc = "done" =>
        /\ {returned[i].shardId : i \in DOMAIN returned} \subseteq Targets
        /\ NoDuplicates(returned)

\* C10 witness: a partial list, two cursors of three targets, returned.
C10_Witness ==
    /\ pc = "done"
    /\ Len(remotes) = 3
    /\ Len(returned) = 2
    /\ returned[1].shardId # returned[2].shardId

\* C11: every killCursors is sent to the host recorded with the cursor
\* it closes and names that cursor's own namespace and only its id.
C11_CloseNamesCursor ==
    \A k \in DOMAIN scheduled :
        /\ k \in DOMAIN remoteCursors
        /\ scheduled[k].target = remoteCursors[k].hostAndPort
        /\ scheduled[k].cmdObj.cursorIds =
             <<remoteCursors[k].cursorResponse.cursorId>>
        /\ scheduled[k].cmdObj.nss = remoteCursors[k].cursorResponse.nss

\* C12: under FairSpec every call of establishCursors ends, by returning
\* a list or by raising.
C12_Terminates == (pc = "start") ~> (pc \in {"done", "failed"})

\* C12 witness: the second call has ended by raising after it consumed
\* three completions, one of them a swallowed failure, and sent a kill.
C12_Witness ==
    /\ call = 2
    /\ pc = "failed"
    /\ allowPartialResults
    /\ consumed = 3
    /\ \E i \in FailedIdx : i \notin FatalIdx(TRUE)
    /\ scheduled # <<>>

\* C13: under FairSpec, which promises nothing about the executor, a call
\* that has finished draining goes on to raise.
C13_CleanupNeverBlocks == (pc = "cleanup") ~> (pc = "failed")

\* C13 witness: the call has raised while the killCursors the executor
\* accepted are all still outstanding, none of their callbacks run.
C13_Witness ==
    /\ pc = "failed"
    /\ Len(scheduled) >= 2
    /\ \A k \in DOMAIN scheduled : scheduled[k].accepted
    /\ callbacksRun = 0

\* The hosts that were sent exactly one killCursors.
ClosedOnce == {h \in {scheduled[k].target : k \in DOMAIN scheduled} :
                 Cardinality(ClosesTo(h)) = 1}

\* C14: when the call has raised, the shards that were sent a killCursors,
\* one each, are exactly the shards whose completion was a successfully
\* parsed cursor, wherever it arrived relative to the fatal failure.
C14_ClosesAreTheSuccesses ==
    pc = "failed" =>
        /\ ClosedOnce = {HostOf(completions[i].shardId) : i \in OkIdx}
        /\ Len(scheduled) = Cardinality(OkIdx)

\* The coordinator state of the design that a position in the code
\* belongs to; the outer catch before the draining loop is DRAINING.
StateOf(p) ==
    IF p = "start" THEN "SUBMITTING"
    ELSE IF p = "collecting" THEN "COLLECTING"
    ELSE IF p = "done" THEN "DONE"
    ELSE IF p \in {"caught", "draining"} THEN "DRAINING"
    ELSE IF p = "cleanup" THEN "CLEANUP"
    ELSE "FAILED"

Edges ==
    {<<"SUBMITTING", "COLLECTING">>, <<"COLLECTING", "DONE">>,
     <<"COLLECTING", "DRAINING">>, <<"DRAINING", "CLEANUP">>,
     <<"CLEANUP", "FAILED">>}

\* C15: within a call the state changes only along the edges
\* COLLECTING -> DONE and COLLECTING -> DRAINING -> CLEANUP -> FAILED,
\* COLLECTING is entered with all requests submitted, DRAINING only with
\* a fatal failure captured, and no killCursors is sent before draining
\* has finished.
C15_StateMachine ==
    [][call' = call =>
          /\ StateOf(pc') # StateOf(pc) => <<StateOf(pc), StateOf(pc')>> \in Edges
          /\ StateOf(pc') = "COLLECTING" => Len(requests') = Len(remotes)
          /\ StateOf(pc') = "DRAINING" =>
               /\ FatalIdx(allowPartialResults) # {}
               /\ caught' # NoError
          /\ scheduled' # scheduled =>
               /\ StateOf(pc) = "CLEANUP"
               /\ consumed = Len(requests)]_vars

\* C17: a call that has returned or raised has consumed the completion
\* of every request it submitted.
C17_AllConsumed ==
    Terminal =>
        /\ Len(requests) = Len(remotes)
        /\ consumed = Len(requests)

\* The call consumes a completion after a fatal failure was captured.
ConsumesAfterFatal ==
    /\ call' = call
    /\ caught # NoError
    /\ consumed' = consumed + 1

C18_RejectionDoesNotStopCleanup ==
    /\ [][(pc = "cleanup" /\ pc' = "failed") =>
             /\ Len(scheduled) = Len(remoteCursors)
             /\ \A k \in DOMAIN scheduled :
                  scheduled[k].target = remoteCursors[k].hostAndPort]_vars
    /\ [][(pc = "cleanup" /\ scheduled' # scheduled) =>
             /\ pc' = "cleanup"
             /\ Len(scheduled') = Len(scheduled) + 1
             /\ killIdx' = killIdx + 1]_vars

\* C18 witness: the executor rejected the first killCursors and accepted
\* the second, and the call has raised.
C18_Witness ==
    /\ pc = "failed"
    /\ Len(scheduled) >= 2
    /\ ~scheduled[1].accepted
    /\ scheduled[2].accepted

\* C19: the host of a completion is dereferenced only if the completion
\* is a successfully parsed cursor response (whose host is present),
\* in the collecting loop and in the draining loop.
C19_HostReadOnlyOnSuccess ==
    \A i \in 1..consumed :
        completions[i].shardId \in hostRead =>
            completions[i].kind = "ok" /\ completions[i].hasHost

\* C19 witness: the call has consumed a failure that carries no host and
\* dereferenced the hosts of a cursor collected before it and of a cursor
\* drained after it.
C19_Witness ==
    /\ pc = "cleanup"
    /\ consumed = 3
    /\ completions[2].kind = "transport"
    /\ ~completions[2].hasHost
    /\ hostRead = {completions[1].shardId, completions[3].shardId}

\* C20: the requests handed to the sender are one per target, in the
\* order of the targets, each with its target's shardId and command, and
\* building them changes nothing but the request vector.
C20_RequestBuilder ==
    /\ [](pc # "start" =>
            /\ Len(requests) = Len(remotes)
            /\ \A i \in DOMAIN remotes :
                 /\ requests[i].shardId = remotes[i][1]
                 /\ requests[i].cmdObj = remotes[i][2])
    /\ [][pc = "start" =>
            UNCHANGED <<remotes, allowPartialResults, completions, consumed,
                        stopped, remoteCursors, caught, innerCaught, killIdx,
                        scheduled, returned, raised>>]_vars

\* C20 witness: three requests have been built for three targets.
C20_Witness ==
    /\ pc = "collecting"
    /\ Len(remotes) = 3
    /\ Len(requests) = 3
    /\ requests[1].shardId # requests[3].shardId

\* C21: while the killCursors loop runs, and when it ends, the list of
\* established cursors stays as it was: nothing is added, removed or
\* moved.
C21_CleanupLeavesList ==
    [][pc = "cleanup" => remoteCursors' = remoteCursors]_vars

\* C21 witness: two killCursors have been scheduled, the call has raised,
\* and the two cursors are still in the list.
C21_Witness ==
    /\ pc = "failed"
    /\ Len(scheduled) = 2
    /\ Len(remoteCursors) = 2
    /\ \A k \in DOMAIN scheduled :
         scheduled[k].target = remoteCursors[k].hostAndPort

\* The completions consumed so far that were cursors.
ConsumedOk == {i \in OkIdx : i <= consumed}

\* C22: a call that returns has sent no killCursors and has not called
\* stopRetrying(); a killCursors is sent only on the failure path, only
\* to the host of a completion that was consumed as a cursor, never for
\* a completion that failed; and nothing is both returned and closed.
C22_ClosesOnlyOnFatalPath ==
    /\ pc = "done" => scheduled = <<>> /\ ~stopped /\ callbacksRun = 0
    /\ scheduled # <<>> => pc \in {"cleanup", "failed"} /\ returned = <<>>
    /\ \A k \in DOMAIN scheduled :
         /\ \E i \in ConsumedOk :
              scheduled[k].target = HostOf(completions[i].shardId)
         /\ \A i \in FailedIdx :
              scheduled[k].target # HostOf(completions[i].shardId)
    /\ \A j \in DOMAIN returned : ClosesTo(returned[j].hostAndPort) = {}

\* C22 witness: the call has raised after draining an unparsable response
\* that came from a reachable host; the one cursor was closed and the
\* host of the unparsable response was not.
C22_Witness ==
    /\ pc = "failed"
    /\ consumed = 3
    /\ completions[3].kind = "parse"
    /\ completions[3].hasHost
    /\ Len(scheduled) = 1
    /\ ClosesTo(completions[3].host) = {}

\* The cursors of the successful completions, in arrival order.
CursorsInArrivalOrder ==
    LET ok(e) == e.kind = "ok"
        oks   == SelectSeq(completions, ok)
    IN  [i \in 1..Len(oks) |-> CursorOf(oks[i])]

\* C23: the list returned is the cursors of the successful completions in
\* the order in which they arrived; as a set it is the cursors of the
\* targets that succeeded, which does not depend on the arrival order.
C23_ReturnedInArrivalOrder ==
    pc = "done" =>
        /\ returned = CursorsInArrivalOrder
        /\ CursorSet(returned) =
             {CursorOf(c) : c \in {completions[i] : i \in OkIdx}}

\* C23 witness: a list has been returned whose order is not the order of
\* the targets.
C23_Witness ==
    /\ pc = "done"
    /\ Len(returned) >= 2
    /\ returned[1].shardId > returned[2].shardId
    /\ remotes[1][1] < remotes[2][1]

\* C24: with no targets the call fetches no completion, sends no
\* killCursors, never enters the failure path, and what it returns is
\* the empty list.
C24_NoTargets ==
    remotes = <<>> =>
        /\ pc \in {"start", "collecting", "done"}
        /\ consumed = 0
        /\ scheduled = <<>>
        /\ ~stopped
        /\ raised = NoError
        /\ returned = <<>>
        /\ pc = "collecting" => ENABLED ReturnCursors

\* C24 witness: the call with allowPartialResults true has returned for
\* an empty target list, as the call with it false did before.
C24_Witness ==
    /\ remotes = <<>>
    /\ call = 2
    /\ allowPartialResults
    /\ pc = "done"
    /\ prev.pc = "done"

====
